---------------------------- MODULE Spec2Model ----------------------------
(***************************************************************************)
(* EdTech AI support agent (Edtech_workflow/ai_support_agent).             *)
(*                                                                         *)
(* The core is two stateless components: the keyword classifier            *)
(* (llm/classify.py, EmailClassifier) and the escalation evaluator         *)
(* (rules/escalation.py, EscalationRules), configured by the keyword lists *)
(* of config/settings.py.  Each is a pure function of its arguments; the   *)
(* state machine below holds one request (subject, body, contact_count and *)
(* a classification record) and the result of the last call made on it.    *)
(*                                                                         *)
(* Representation of Python values                                         *)
(*   str holding text that is scanned : a sequence of one-character        *)
(*                         strings, so that `kw in text`, len() and        *)
(*                         lower() are computed character by character     *)
(*   str used as a label : a TLA+ string ("High", "Payment & Billing")     *)
(*   None                : PyNone                                          *)
(*   dict                : a function from its keys to its values          *)
(*   float (confidence)  : an integer, the value in units of 0.0001; see   *)
(*                         FloatAdd for the one sum that is not a multiple *)
(*                         of 0.01                                         *)
(*   a call's outcome    : Return(v) or Raise(exception name)              *)
(***************************************************************************)
EXTENDS Integers, Sequences, FiniteSets, TLC

VARIABLES
  subject,          \* EmailInput.subject
  body,             \* EmailInput.body
  contact_count,    \* EmailInput.contact_count
  classification,   \* the classification dict handed to the evaluator
  call,             \* name of the last completed call, "none" before any
  ret,              \* outcome of that call
  ticket,           \* process_ticket / webhook_process_email: position and locals
  batch             \* batch_process: position, request.emails, results, response

vars == <<subject, body, contact_count, classification, call, ret, ticket, batch>>

(***************************************************************************)
(* Python values                                                           *)
(***************************************************************************)
PyNone == [py |-> "None"]

EmptyDict == [k \in {} |-> PyNone]

\* str literal and f-string: the fixed text and the formatted values
Str(s) == [py |-> "str", text |-> s, args |-> << >>]

FStr(s, values) == [py |-> "str", text |-> s, args |-> values]

Return(v) == [raised |-> FALSE, value |-> v]

Raise(e) == [raised |-> TRUE, exc |-> e]

\* bool(x) of None or a dict: None and {} are falsy
Truthy(d) == d # PyNone /\ DOMAIN d # {}

\* dict.get(key, default)
Get(d, key, default) == IF key \in DOMAIN d THEN d[key] ELSE default

\* str.lower(), character by character
TO_LOWER ==
  [A |-> "a", B |-> "b", C |-> "c", D |-> "d", E |-> "e", F |-> "f", G |-> "g",
   H |-> "h", I |-> "i", J |-> "j", K |-> "k", L |-> "l", M |-> "m", N |-> "n",
   O |-> "o", P |-> "p", Q |-> "q", R |-> "r", S |-> "s", T |-> "t", U |-> "u",
   V |-> "v", W |-> "w", X |-> "x", Y |-> "y", Z |-> "z"]

LowerChar(c) == IF c \in DOMAIN TO_LOWER THEN TO_LOWER[c] ELSE c

\* (SubSeq makes the result a sequence value rather than a function expression)
lower(s) == SubSeq([i \in 1..Len(s) |-> LowerChar(s[i])], 1, Len(s))

\* `keyword in text` for two str: keyword occurs as a contiguous substring
Contains(text, keyword) ==
  \E i \in 0..(Len(text) - Len(keyword)) :
     \A j \in 1..Len(keyword) : text[i + j] = keyword[j]

\* any(keyword in text for keyword in keywords)
AnyIn(keywords, text) ==
  \E k \in 1..Len(keywords) : Contains(text, keywords[k])

\* '{x:.2f}' of a float given in units of 0.0001: the value in hundredths
Format2f(x) == (x + 50) \div 100

(***************************************************************************)
(* config/settings.py                                                      *)
(***************************************************************************)
LEGAL_KEYWORDS ==
  << <<"l","e","g","a","l">>,
     <<"l","a","w","s","u","i","t">>,
     <<"a","t","t","o","r","n","e","y">>,
     <<"l","a","w","y","e","r">>,
     <<"c","o","m","p","l","i","a","n","c","e">>,
     <<"c","o","u","r","t">>,
     <<"d","i","s","p","u","t","e">>,
     <<"c","o","n","t","r","a","c","t">> >>

REFUND_KEYWORDS ==
  << <<"r","e","f","u","n","d">>,
     <<"m","o","n","e","y"," ","b","a","c","k">>,
     <<"r","e","i","m","b","u","r","s","e","m","e","n","t">>,
     <<"r","e","t","u","r","n">>,
     <<"c","h","a","r","g","e"," ","b","a","c","k">>,
     <<"r","e","f","u","n","d"," ","r","e","q","u","e","s","t">>,
     <<"c","a","n","c","e","l"," ","s","u","b","s","c","r","i","p","t","i","o","n">>,
     <<"g","e","t"," ","m","y"," ","m","o","n","e","y"," ","b","a","c","k">>,
     <<"r","e","f","u","n","d"," ","m","y"," ","p","a","y","m","e","n","t">> >>

HIGH_URGENCY_KEYWORDS ==
  << <<"u","r","g","e","n","t">>,
     <<"a","s","a","p">>,
     <<"i","m","m","e","d","i","a","t","e","l","y">>,
     <<"c","r","i","t","i","c","a","l">>,
     <<"e","m","e","r","g","e","n","c","y">>,
     <<"c","a","n","n","o","t"," ","a","c","c","e","s","s">>,
     <<"b","r","o","k","e","n">>,
     <<"n","o","t"," ","w","o","r","k","i","n","g">>,
     <<"e","r","r","o","r">>,
     <<"f","a","i","l","e","d">> >>

MEDIUM_URGENCY_KEYWORDS ==
  << <<"i","m","p","o","r","t","a","n","t">>,
     <<"s","o","o","n">>,
     <<"n","e","e","d">>,
     <<"i","s","s","u","e">>,
     <<"p","r","o","b","l","e","m">>,
     <<"h","e","l","p">> >>

POSITIVE_KEYWORDS ==
  << <<"g","r","e","a","t">>,
     <<"e","x","c","e","l","l","e","n","t">>,
     <<"a","m","a","z","i","n","g">>,
     <<"l","o","v","e">>,
     <<"p","e","r","f","e","c","t">>,
     <<"w","o","n","d","e","r","f","u","l">>,
     <<"t","h","a","n","k"," ","y","o","u">>,
     <<"t","h","a","n","k","s">>,
     <<"a","p","p","r","e","c","i","a","t","e">>,
     <<"s","a","t","i","s","f","i","e","d">> >>

NEGATIVE_KEYWORDS ==
  << <<"b","a","d">>,
     <<"t","e","r","r","i","b","l","e">>,
     <<"a","w","f","u","l">>,
     <<"h","a","t","e">>,
     <<"w","o","r","s","t">>,
     <<"p","r","o","b","l","e","m">>,
     <<"i","s","s","u","e">>,
     <<"b","r","o","k","e","n">>,
     <<"e","r","r","o","r">>,
     <<"f","r","u","s","t","r","a","t","e","d">>,
     <<"a","n","g","r","y">> >>

\* ESCALATION_THRESHOLDS["repeated_contact_count"]
REPEATED_CONTACT_COUNT == 2

(***************************************************************************)
(* config/settings.py : SUPPORT_CATEGORIES (category -> sub_categories)    *)
(***************************************************************************)
SUPPORT_CATEGORIES ==
  [c \in {"Technical Issues", "Payment & Billing", "Course Content",
          "Account Management", "General Queries"} |->
     CASE c = "Technical Issues" ->
            <<"Platform Access", "Video Playback", "Course Materials",
              "Account Login", "Browser Compatibility">>
       [] c = "Payment & Billing" ->
            <<"Refund Request", "Payment Failed", "Invoice",
              "Subscription", "Course Pricing">>
       [] c = "Course Content" ->
            <<"Course Completion", "Certificate", "Curriculum",
              "Course Duration", "Content Quality">>
       [] c = "Account Management" ->
            <<"Profile Update", "Password Reset", "Account Deletion",
              "Email Change", "Two Factor Auth">>
       [] c = "General Queries" ->
            <<"Inquiry", "Suggestion", "Feedback", "Other">>]

(***************************************************************************)
(* llm/classify.py : EmailClassifier                                       *)
(***************************************************************************)
\* the keyword lists written inline in _classify_category
PAYMENT_WORDS ==
  << <<"r","e","f","u","n","d">>,
     <<"p","a","y","m","e","n","t">>,
     <<"b","i","l","l","i","n","g">>,
     <<"i","n","v","o","i","c","e">>,
     <<"p","r","i","c","e">>,
     <<"c","o","s","t">>,
     <<"c","h","a","r","g","e","d">> >>

TECHNICAL_WORDS ==
  << <<"c","a","n","n","o","t"," ","a","c","c","e","s","s">>,
     <<"l","o","g","i","n">>,
     <<"e","r","r","o","r">>,
     <<"b","r","o","k","e","n">>,
     <<"n","o","t"," ","w","o","r","k","i","n","g">>,
     <<"v","i","d","e","o">>,
     <<"p","l","a","y","b","a","c","k">>,
     <<"p","l","a","t","f","o","r","m">> >>

COURSE_WORDS ==
  << <<"c","e","r","t","i","f","i","c","a","t","e">>,
     <<"c","o","m","p","l","e","t","i","o","n">>,
     <<"c","o","u","r","s","e">>,
     <<"m","a","t","e","r","i","a","l">>,
     <<"c","o","n","t","e","n","t">>,
     <<"c","u","r","r","i","c","u","l","u","m">> >>

ACCOUNT_WORDS ==
  << <<"p","a","s","s","w","o","r","d">>,
     <<"a","c","c","o","u","n","t">>,
     <<"p","r","o","f","i","l","e">>,
     <<"e","m","a","i","l">>,
     <<"d","e","l","e","t","e">>,
     <<"t","w","o"," ","f","a","c","t","o","r">>,
     <<"v","e","r","i","f","i","c","a","t","i","o","n">> >>

\* _classify_category that tests the Technical Issues keywords before the
\* Payment & Billing keywords
_classify_category_technical_first(text) ==
  LET text_lower == lower(text)
  IN
  IF AnyIn(TECHNICAL_WORDS, text_lower) THEN "Technical Issues"
  ELSE IF AnyIn(PAYMENT_WORDS, text_lower) THEN "Payment & Billing"
  ELSE IF AnyIn(COURSE_WORDS, text_lower) THEN "Course Content"
  ELSE IF AnyIn(ACCOUNT_WORDS, text_lower) THEN "Account Management"
  ELSE "General Queries"

_classify_category(text) ==
  LET text_lower == lower(text)
  IN
  IF AnyIn(PAYMENT_WORDS, text_lower) THEN "Payment & Billing"
  ELSE IF AnyIn(TECHNICAL_WORDS, text_lower) THEN "Technical Issues"
  ELSE IF AnyIn(COURSE_WORDS, text_lower) THEN "Course Content"
  ELSE IF AnyIn(ACCOUNT_WORDS, text_lower) THEN "Account Management"
  ELSE "General Queries"

\* the mapping of _classify_sub_category: per category, the (sub-category,
\* keywords) pairs in the order the dict literal declares them
TECHNICAL_MAPPING ==
  << <<"Platform Access",
        << <<"c","a","n","n","o","t"," ","a","c","c","e","s","s">>,
           <<"a","c","c","e","s","s"," ","d","e","n","i","e","d">>,
           <<"l","o","g","i","n">> >> >>,
     <<"Video Playback",
        << <<"v","i","d","e","o">>,
           <<"p","l","a","y","b","a","c","k">>,
           <<"c","a","n","n","o","t"," ","p","l","a","y">> >> >>,
     <<"Course Materials",
        << <<"m","a","t","e","r","i","a","l","s">>,
           <<"c","o","n","t","e","n","t">>,
           <<"d","o","w","n","l","o","a","d">> >> >>,
     <<"Account Login",
        << <<"l","o","g","i","n">>,
           <<"p","a","s","s","w","o","r","d">>,
           <<"s","i","g","n"," ","i","n">> >> >>,
     <<"Browser Compatibility",
        << <<"b","r","o","w","s","e","r">>,
           <<"c","h","r","o","m","e">>,
           <<"f","i","r","e","f","o","x">>,
           <<"s","a","f","a","r","i">> >> >> >>

PAYMENT_MAPPING ==
  << <<"Refund Request",
        << <<"r","e","f","u","n","d">>,
           <<"r","e","t","u","r","n">>,
           <<"m","o","n","e","y"," ","b","a","c","k">> >> >>,
     <<"Payment Failed",
        << <<"p","a","y","m","e","n","t"," ","f","a","i","l","e","d">>,
           <<"c","h","a","r","g","e">>,
           <<"d","e","c","l","i","n","e","d">> >> >>,
     <<"Invoice",
        << <<"i","n","v","o","i","c","e">>,
           <<"r","e","c","e","i","p","t">>,
           <<"b","i","l","l">> >> >>,
     <<"Subscription",
        << <<"s","u","b","s","c","r","i","p","t","i","o","n">>,
           <<"r","e","n","e","w">>,
           <<"c","a","n","c","e","l">> >> >>,
     <<"Course Pricing",
        << <<"p","r","i","c","e">>,
           <<"c","o","s","t">>,
           <<"e","x","p","e","n","s","i","v","e">> >> >> >>

COURSE_MAPPING ==
  << <<"Course Completion",
        << <<"c","o","m","p","l","e","t","i","o","n">>,
           <<"f","i","n","i","s","h","e","d">>,
           <<"d","o","n","e">> >> >>,
     <<"Certificate",
        << <<"c","e","r","t","i","f","i","c","a","t","e">>,
           <<"p","r","o","o","f">>,
           <<"c","r","e","d","e","n","t","i","a","l">> >> >>,
     <<"Curriculum",
        << <<"c","u","r","r","i","c","u","l","u","m">>,
           <<"c","o","u","r","s","e"," ","s","t","r","u","c","t","u","r","e">> >> >>,
     <<"Course Duration",
        << <<"d","u","r","a","t","i","o","n">>,
           <<"l","o","n","g">>,
           <<"h","o","u","r","s">> >> >>,
     <<"Content Quality",
        << <<"q","u","a","l","i","t","y">>,
           <<"c","o","n","t","e","n","t">>,
           <<"m","a","t","e","r","i","a","l">> >> >> >>

ACCOUNT_MAPPING ==
  << <<"Profile Update",
        << <<"p","r","o","f","i","l","e">>,
           <<"u","p","d","a","t","e">>,
           <<"c","h","a","n","g","e">> >> >>,
     <<"Password Reset",
        << <<"p","a","s","s","w","o","r","d">>,
           <<"r","e","s","e","t">>,
           <<"f","o","r","g","o","t">> >> >>,
     <<"Account Deletion",
        << <<"d","e","l","e","t","e">>,
           <<"r","e","m","o","v","e">>,
           <<"c","a","n","c","e","l"," ","a","c","c","o","u","n","t">> >> >>,
     <<"Email Change",
        << <<"e","m","a","i","l">>,
           <<"c","h","a","n","g","e"," ","e","m","a","i","l">> >> >>,
     <<"Two Factor Auth",
        << <<"2","f","a">>,
           <<"t","w","o"," ","f","a","c","t","o","r">>,
           <<"a","u","t","h","e","n","t","i","c","a","t","i","o","n">> >> >> >>

mapping ==
  [c \in {"Technical Issues", "Payment & Billing", "Course Content",
          "Account Management"} |->
     CASE c = "Technical Issues"   -> TECHNICAL_MAPPING
       [] c = "Payment & Billing"  -> PAYMENT_MAPPING
       [] c = "Course Content"     -> COURSE_MAPPING
       [] c = "Account Management" -> ACCOUNT_MAPPING]

\* _classify_sub_category that takes the last matching pair, not the first
_classify_sub_category_last_match(category, text) ==
  LET text_lower == lower(text)
  IN
  IF category \notin DOMAIN SUPPORT_CATEGORIES
  THEN "Unknown"
  ELSE
    LET sub_categories == SUPPORT_CATEGORIES[category]
        pairs == IF category \in DOMAIN mapping THEN mapping[category] ELSE << >>
        hits  == {k \in 1..Len(pairs) : AnyIn(pairs[k][2], text_lower)}
    IN
    IF hits # {}
    THEN pairs[CHOOSE k \in hits : \A h \in hits : k >= h][1]
    ELSE IF Len(sub_categories) > 0 THEN sub_categories[1] ELSE "Unknown"

\* _classify_sub_category that answers "Unknown" when no keyword matches
_classify_sub_category_unknown_fallback(category, text) ==
  LET text_lower == lower(text)
  IN
  IF category \notin DOMAIN SUPPORT_CATEGORIES
  THEN "Unknown"
  ELSE
    LET pairs == IF category \in DOMAIN mapping THEN mapping[category] ELSE << >>
        hits  == {k \in 1..Len(pairs) : AnyIn(pairs[k][2], text_lower)}
    IN
    IF hits # {}
    THEN pairs[CHOOSE k \in hits : \A h \in hits : k <= h][1]
    ELSE "Unknown"

_classify_sub_category(category, text) ==
  LET text_lower == lower(text)
  IN
  IF category \notin DOMAIN SUPPORT_CATEGORIES
  THEN "Unknown"
  ELSE
    LET sub_categories == SUPPORT_CATEGORIES[category]
        pairs == IF category \in DOMAIN mapping THEN mapping[category] ELSE << >>
        hits  == {k \in 1..Len(pairs) : AnyIn(pairs[k][2], text_lower)}
    IN
    IF hits # {}
    THEN pairs[CHOOSE k \in hits : \A h \in hits : k <= h][1]
    ELSE IF Len(sub_categories) > 0 THEN sub_categories[1] ELSE "Unknown"

_classify_urgency(text) ==
  LET text_lower == lower(text)
  IN
  IF AnyIn(HIGH_URGENCY_KEYWORDS, text_lower) THEN "High"
  ELSE IF AnyIn(MEDIUM_URGENCY_KEYWORDS, text_lower) THEN "Medium"
  ELSE "Low"

_classify_sentiment(text) ==
  LET text_lower == lower(text)
      positive_count ==
        Cardinality({k \in 1..Len(POSITIVE_KEYWORDS) :
                       Contains(text_lower, POSITIVE_KEYWORDS[k])})
      negative_count ==
        Cardinality({k \in 1..Len(NEGATIVE_KEYWORDS) :
                       Contains(text_lower, NEGATIVE_KEYWORDS[k])})
  IN
  IF positive_count > negative_count THEN "Positive"
  ELSE IF negative_count > positive_count THEN "Negative"
  ELSE "Neutral"

\* x + y of two doubles, in units of 0.0001.  The sums _calculate_confidence
\* forms are the doubles of the literals 0.75, 0.85, 0.9 and 0.95, except
\* 0.7 + 0.1 = 0.7999999999999999, the double just below 0.8, which is
\* coded 7999: the coding keeps the order of the doubles it names.
FloatAdd(x, y) == IF x = 7000 /\ y = 1000 THEN 7999 ELSE x + y

\* the length thresholds of _calculate_confidence
LEN_LONG == 100

LEN_MEDIUM == 50

\* _calculate_confidence with >= in place of > in the two length tests
_calculate_confidence_inclusive(text, category) ==
  LET base == 7000
      specific == IF category # "General Queries" THEN FloatAdd(base, 1500) ELSE base
      longer == IF Len(text) >= LEN_LONG THEN FloatAdd(specific, 1000)
                ELSE IF Len(text) >= LEN_MEDIUM THEN FloatAdd(specific, 500)
                ELSE specific
  IN  IF longer < 10000 THEN longer ELSE 10000

_calculate_confidence(text, category) ==
  LET base == 7000
      specific == IF category # "General Queries" THEN FloatAdd(base, 1500) ELSE base
      longer == IF Len(text) > LEN_LONG THEN FloatAdd(specific, 1000)
                ELSE IF Len(text) > LEN_MEDIUM THEN FloatAdd(specific, 500)
                ELSE specific
  IN  IF longer < 10000 THEN longer ELSE 10000

\* classify whose provisional flag is also raised below confidence 0.75
classify_flag_below_075(subj, email_body) ==
  LET text         == lower(subj \o <<" ">> \o email_body)
      category     == _classify_category(text)
      sub_category == _classify_sub_category(category, text)
      urgency      == _classify_urgency(text)
      sentiment    == _classify_sentiment(text)
      confidence   == _calculate_confidence(text, category)
      escalate_to_human == (urgency = "High" \/ confidence < 7500)
  IN  [category          |-> category,
       sub_category      |-> sub_category,
       urgency           |-> urgency,
       sentiment         |-> sentiment,
       confidence        |-> confidence,
       escalate_to_human |-> escalate_to_human]

\* classify(subject, body): text is f"{subject} {body}".lower()
classify(subj, email_body) ==
  LET text         == lower(subj \o <<" ">> \o email_body)
      category     == _classify_category(text)
      sub_category == _classify_sub_category(category, text)
      urgency      == _classify_urgency(text)
      sentiment    == _classify_sentiment(text)
      confidence   == _calculate_confidence(text, category)
      escalate_to_human == (urgency = "High" \/ confidence < 5000)
  IN  [category          |-> category,
       sub_category      |-> sub_category,
       urgency           |-> urgency,
       sentiment         |-> sentiment,
       confidence        |-> confidence,
       escalate_to_human |-> escalate_to_human]

(***************************************************************************)
(* rules/escalation.py : EscalationRules                                   *)
(***************************************************************************)
\* check_legal_threat without the lower(): a case-sensitive scan
check_legal_threat_case_sensitive(email_body) ==
  AnyIn(LEGAL_KEYWORDS, email_body)

check_legal_threat(email_body) ==
  LET body_lower == lower(email_body)
  IN  AnyIn(LEGAL_KEYWORDS, body_lower)

\* check_refund_demand without the lower(): a case-sensitive scan
check_refund_demand_case_sensitive(email_body) ==
  AnyIn(REFUND_KEYWORDS, email_body)

check_refund_demand(email_body) ==
  LET body_lower == lower(email_body)
  IN  AnyIn(REFUND_KEYWORDS, body_lower)

\* check_angry_tone that takes every sentiment but Positive for angry
check_angry_tone_not_positive(sentiment) == sentiment # "Positive"

check_angry_tone(sentiment) == sentiment = "Negative"

check_repeated_contact(count) ==
  LET threshold == REPEATED_CONTACT_COUNT
  IN  count >= threshold

\* check_high_urgency that takes every urgency but Low for High
check_high_urgency_not_low(urgency) == urgency # "Low"

check_high_urgency(urgency) == urgency = "High"

check_medium_urgency(urgency) == urgency = "Medium"

\* evaluate with rule 3 testing confidence > 0.90 instead of >= 0.90
evaluate_strict_threshold(cls, email_body, count) ==
  IF ~Truthy(cls)
  THEN <<TRUE, Str("No classification provided")>>
  ELSE
    LET urgency    == Get(cls, "urgency", "Low")
        sentiment  == Get(cls, "sentiment", "Neutral")
        confidence == Get(cls, "confidence", 0)
    IN
    \* RULE 1
    IF check_legal_threat(email_body)
    THEN <<TRUE, Str("Legal threat detected")>>
    \* RULE 2
    ELSE IF check_refund_demand(email_body)
    THEN <<TRUE, Str("Refund demand detected")>>
    \* RULE 3: confidence > 0.90
    ELSE IF check_high_urgency(urgency) /\ check_angry_tone(sentiment)
    THEN IF confidence > 9000
         THEN <<TRUE, FStr("High urgency + Negative sentiment (confidence: {:.2f})",
                           <<Format2f(confidence)>>)>>
         ELSE <<FALSE, PyNone>>
    \* RULE 4
    ELSE IF check_medium_urgency(urgency) /\ check_angry_tone(sentiment)
    THEN <<FALSE, PyNone>>
    \* RULE 5: confidence >= 0.85
    ELSE IF check_repeated_contact(count)
            /\ check_high_urgency(urgency) /\ check_angry_tone(sentiment)
    THEN IF confidence >= 8500
         THEN <<TRUE, FStr("Repeated contact ({}) + High urgency + Negative (confidence: {:.2f})",
                           <<count, Format2f(confidence)>>)>>
         ELSE <<FALSE, PyNone>>
    ELSE IF check_repeated_contact(count)
            /\ check_medium_urgency(urgency) /\ check_angry_tone(sentiment)
    THEN <<FALSE, PyNone>>
    \* RULE 6: confidence < 0.75
    ELSE IF confidence < 7500
    THEN <<FALSE, PyNone>>
    \* DEFAULT
    ELSE <<FALSE, PyNone>>

\* evaluate in which rule 3 goes on to the later rules below 0.90, so that
\* the repeated-contact rule is reached
evaluate_rule3_falls_through(cls, email_body, count) ==
  IF ~Truthy(cls)
  THEN <<TRUE, Str("No classification provided")>>
  ELSE
    LET urgency    == Get(cls, "urgency", "Low")
        sentiment  == Get(cls, "sentiment", "Neutral")
        confidence == Get(cls, "confidence", 0)
    IN
    \* RULE 1
    IF check_legal_threat(email_body)
    THEN <<TRUE, Str("Legal threat detected")>>
    \* RULE 2
    ELSE IF check_refund_demand(email_body)
    THEN <<TRUE, Str("Refund demand detected")>>
    \* RULE 3 without its else branch
    ELSE IF check_high_urgency(urgency) /\ check_angry_tone(sentiment)
            /\ confidence >= 9000
    THEN <<TRUE, FStr("High urgency + Negative sentiment (confidence: {:.2f})",
                      <<Format2f(confidence)>>)>>
    \* RULE 4
    ELSE IF check_medium_urgency(urgency) /\ check_angry_tone(sentiment)
    THEN <<FALSE, PyNone>>
    \* RULE 5: confidence >= 0.85
    ELSE IF check_repeated_contact(count)
            /\ check_high_urgency(urgency) /\ check_angry_tone(sentiment)
    THEN IF confidence >= 8500
         THEN <<TRUE, FStr("Repeated contact ({}) + High urgency + Negative (confidence: {:.2f})",
                           <<count, Format2f(confidence)>>)>>
         ELSE <<FALSE, PyNone>>
    ELSE IF check_repeated_contact(count)
            /\ check_medium_urgency(urgency) /\ check_angry_tone(sentiment)
    THEN <<FALSE, PyNone>>
    \* RULE 6: confidence < 0.75
    ELSE IF confidence < 7500
    THEN <<FALSE, PyNone>>
    \* DEFAULT
    ELSE <<FALSE, PyNone>>

\* evaluate(classification, email_body, contact_count) -> (escalate, reason).
\* The rules are tried in the order of the source; the first return wins.
evaluate(cls, email_body, count) ==
  IF ~Truthy(cls)
  THEN <<TRUE, Str("No classification provided")>>
  ELSE
    LET urgency    == Get(cls, "urgency", "Low")
        sentiment  == Get(cls, "sentiment", "Neutral")
        confidence == Get(cls, "confidence", 0)
    IN
    \* RULE 1
    IF check_legal_threat(email_body)
    THEN <<TRUE, Str("Legal threat detected")>>
    \* RULE 2
    ELSE IF check_refund_demand(email_body)
    THEN <<TRUE, Str("Refund demand detected")>>
    \* RULE 3: confidence >= 0.90
    ELSE IF check_high_urgency(urgency) /\ check_angry_tone(sentiment)
    THEN IF confidence >= 9000
         THEN <<TRUE, FStr("High urgency + Negative sentiment (confidence: {:.2f})",
                           <<Format2f(confidence)>>)>>
         ELSE <<FALSE, PyNone>>
    \* RULE 4
    ELSE IF check_medium_urgency(urgency) /\ check_angry_tone(sentiment)
    THEN <<FALSE, PyNone>>
    \* RULE 5: confidence >= 0.85
    ELSE IF check_repeated_contact(count)
            /\ check_high_urgency(urgency) /\ check_angry_tone(sentiment)
    THEN IF confidence >= 8500
         THEN <<TRUE, FStr("Repeated contact ({}) + High urgency + Negative (confidence: {:.2f})",
                           <<count, Format2f(confidence)>>)>>
         ELSE <<FALSE, PyNone>>
    ELSE IF check_repeated_contact(count)
            /\ check_medium_urgency(urgency) /\ check_angry_tone(sentiment)
    THEN <<FALSE, PyNone>>
    \* RULE 6: confidence < 0.75
    ELSE IF confidence < 7500
    THEN <<FALSE, PyNone>>
    \* DEFAULT
    ELSE <<FALSE, PyNone>>

\* get_escalation_priority without the early return of "None" for a ticket
\* that is not escalated
get_escalation_priority_no_early_return(cls, email_body, count) ==
  IF cls = PyNone
  THEN Raise("AttributeError")
  ELSE
    LET urgency   == Get(cls, "urgency", "Low")
        sentiment == Get(cls, "sentiment", "Neutral")
    IN
    IF check_legal_threat(email_body) THEN Return("Critical")
    ELSE IF check_refund_demand(email_body) THEN Return("Critical")
    ELSE IF urgency = "High" /\ sentiment = "Negative" THEN Return("High")
    ELSE IF count >= 2 THEN Return("Medium")
    ELSE Return("Low")

\* get_escalation_priority(classification, email_body, contact_count).
\* classification.get on None raises AttributeError (line 124).
get_escalation_priority(cls, email_body, count) ==
  LET escalate == evaluate(cls, email_body, count)[1]
  IN
  IF ~escalate
  THEN Return("None")
  ELSE IF cls = PyNone
  THEN Raise("AttributeError")
  ELSE
    LET urgency   == Get(cls, "urgency", "Low")
        sentiment == Get(cls, "sentiment", "Neutral")
    IN
    IF check_legal_threat(email_body) THEN Return("Critical")
    ELSE IF check_refund_demand(email_body) THEN Return("Critical")
    ELSE IF urgency = "High" /\ sentiment = "Negative" THEN Return("High")
    ELSE IF count >= 2 THEN Return("Medium")
    ELSE Return("Low")

\* format_escalation_summary(classification, email_body, contact_count).
\* The call of get_escalation_priority (line 149) and the classification.get
\* calls of the details (lines 156-158) propagate their exception.
format_escalation_summary(cls, email_body, count) ==
  LET decision == evaluate(cls, email_body, count)
      priority == get_escalation_priority(cls, email_body, count)
  IN
  IF priority.raised
  THEN priority
  ELSE IF cls = PyNone
  THEN Raise("AttributeError")
  ELSE Return([should_escalate |-> decision[1],
               reason          |-> decision[2],
               priority        |-> priority.value,
               details |-> [urgency           |-> Get(cls, "urgency", PyNone),
                            sentiment         |-> Get(cls, "sentiment", PyNone),
                            confidence        |-> Get(cls, "confidence", PyNone),
                            contact_count     |-> count,
                            has_legal_threat  |-> check_legal_threat(email_body),
                            has_refund_demand |-> check_refund_demand(email_body)]])

(***************************************************************************)
(* llm/reply.py : ReplyGenerator                                           *)
(***************************************************************************)
\* _load_templates: per category the (key, text) pairs in insertion order
TECHNICAL_TEMPLATES ==
  <<<<"Platform Access",
      "Thank you for reaching out! We're sorry you're experiencing access issues. Our technical team is looking into this. Please try clearing your browser cache and logging in again. If the issue persists, please reply with your account details and we'll investigate immediately.">>,
    <<"Video Playback",
      "Thank you for reporting the video playback issue. This is often due to browser compatibility or internet speed. Please try: 1) Using a different browser, 2) Clearing your cache, or 3) Checking your internet connection. Let us know if the issue continues!">>,
    <<"Course Materials",
      "We appreciate you contacting us about the course materials. You should be able to access all materials from the course dashboard. If you're unable to download or view materials, please verify your course enrollment status. Contact us with your course name and we'll help!">>,
    <<"Account Login",
      "Thank you for reaching out about login issues. Please try resetting your password using the 'Forgot Password' link on the login page. If you still can't access your account, we're here to help - please provide your registered email and account details.">>,
    <<"Browser Compatibility",
      "Great question! Our platform works best on Chrome, Firefox, Safari, and Edge (latest versions). If you're using an older browser, please update it or try a different browser. Let us know if this resolves your issue!">>>>

PAYMENT_TEMPLATES ==
  <<<<"Refund Request",
      "Thank you for contacting us about a refund. We have a 30-day money-back guarantee on all courses. Please reply with your order ID and reason for the refund, and we'll process it within 5-7 business days.">>,
    <<"Payment Failed",
      "Sorry to hear your payment didn't go through! This can happen due to various reasons. Please try: 1) Using a different payment method, 2) Checking with your bank, or 3) Contacting us with your order details and we'll help troubleshoot.">>,
    <<"Invoice",
      "Thank you for requesting an invoice. Invoices are automatically sent to your registered email after purchase. You can also download invoices from your account dashboard under 'Billing History'. Let us know if you need any assistance!">>,
    <<"Subscription",
      "Thank you for your question about subscriptions. You can manage your subscription (renew or cancel) from your account settings. If you need help, please contact us with your subscription details and we'll assist you promptly.">>,
    <<"Course Pricing",
      "We appreciate your interest in our courses! Our pricing reflects the quality content and instructor expertise. We regularly offer discounts and promotions - check your email or visit our pricing page for current offers!">>>>

COURSE_TEMPLATES ==
  <<<<"Course Completion",
      "Great job working through the course! Once you've completed all modules, you'll be able to access your certificate. If you've completed everything and don't see the option, please let us know the course name and we'll verify your completion status.">>,
    <<"Certificate",
      "Congratulations on completing the course! Your certificate is available in your dashboard under 'My Certificates'. You can download it as a PDF or share it directly. If you don't see it, please ensure you've completed all required modules.">>,
    <<"Curriculum",
      "Thank you for your question about the course curriculum. You can view the detailed curriculum on the course page before enrolling. If you need more information about specific topics or modules, feel free to ask and we'll provide more details!">>,
    <<"Course Duration",
      "The course duration varies by course and your learning pace. Most courses can be completed in 4-8 weeks with 5-10 hours per week. You'll have lifetime access to the materials, so you can learn at your own speed. Let us know if you need more details!">>,
    <<"Content Quality",
      "We're committed to providing high-quality educational content. Each course is created by industry experts and regularly updated. If you have specific feedback or suggestions, we'd love to hear it! Please share your thoughts and we'll take them into consideration.">>>>

ACCOUNT_TEMPLATES ==
  <<<<"Profile Update",
      "You can update your profile information by going to Account Settings. Simply click on your profile picture in the top-right corner and select 'Account Settings'. If you need help with any specific field, let us know!">>,
    <<"Password Reset",
      "To reset your password, click 'Forgot Password' on the login page. You'll receive an email with reset instructions. If you don't see the email, please check your spam folder or contact us for assistance.">>,
    <<"Account Deletion",
      "We're sorry to see you go! To delete your account, please contact our support team with your request. Note that this action is irreversible and you'll lose access to all courses. We'd love to hear feedback on why you're leaving!">>,
    <<"Email Change",
      "To change your email, go to Account Settings and update your email address. You'll receive a confirmation email at your new address. If you encounter any issues, please contact us and we'll help you change it securely.">>,
    <<"Two Factor Auth",
      "For added security, you can enable two-factor authentication in your Account Settings. This adds an extra layer of protection to your account. Once enabled, you'll need to provide a code from your authenticator app when logging in.">>>>

GENERAL_TEMPLATES ==
  <<<<"default",
      "Thank you for reaching out to us! We appreciate your inquiry. Our team will review your message and get back to you within 24 hours. In the meantime, if you have any urgent questions, please let us know!">>>>

templates ==
  [c \in {"Technical Issues", "Payment & Billing", "Course Content",
          "Account Management", "General Queries"} |->
     CASE c = "Technical Issues"   -> TECHNICAL_TEMPLATES
       [] c = "Payment & Billing"  -> PAYMENT_TEMPLATES
       [] c = "Course Content"     -> COURSE_TEMPLATES
       [] c = "Account Management" -> ACCOUNT_TEMPLATES
       [] c = "General Queries"    -> GENERAL_TEMPLATES]

\* the keys of a category's templates that are "default"
DefaultKeys(category_templates) ==
  {k \in 1..Len(category_templates) : category_templates[k][1] = "default"}

_get_template_reply(category) ==
  IF category \notin DOMAIN templates
  THEN PyNone
  ELSE
    LET category_templates == templates[category]
    IN
    IF DefaultKeys(category_templates) # {}
    THEN Str(category_templates[CHOOSE k \in DefaultKeys(category_templates) : TRUE][2])
    ELSE IF Len(category_templates) > 0
    THEN Str(category_templates[1][2])
    ELSE PyNone

_get_generic_reply(sentiment) ==
  IF sentiment = "Negative"
  THEN Str("Thank you for reaching out. We sincerely apologize for any inconvenience you've experienced. Our team is committed to resolving this issue as quickly as possible. Please provide us with more details and we'll prioritize your case.")
  ELSE IF sentiment = "Positive"
  THEN Str("Thank you so much for your kind message! We're thrilled that you're having a great experience. If you have any questions or need assistance, please don't hesitate to reach out!")
  ELSE Str("Thank you for contacting us. We appreciate your inquiry and will get back to you shortly with a helpful response. Please let us know if there's anything else we can assist you with.")

\* returns the pair (reply_text, source); `if reply:` is false for None and ""
generate_with_fallback(subj, email_body, category, sentiment) ==
  LET reply == _get_template_reply(category)
  IN
  IF reply # PyNone /\ reply.text # ""
  THEN <<reply, "template">>
  ELSE <<_get_generic_reply(sentiment), "fallback">>

(***************************************************************************)
(* Inputs of the model                                                     *)
(***************************************************************************)
\* contact_count ranges over 0..MaxContact
MaxContact == 2

URGENCIES == {"High", "Medium", "Low"}

SENTIMENTS == {"Positive", "Negative", "Neutral"}

\* confidence values handed to the evaluator (units of 0.0001): both sides
\* of the 0.75, 0.85 and 0.90 thresholds, 0.0 and 0.99
CONFIDENCES == {0, 7400, 8000, 8400, 8500, 8700, 8900, 9000, 9900}

\* bodies of the direct calls of the evaluator
\* ""
BODY_EMPTY == <<>>

\* "hello there"
BODY_HELLO == <<"h","e","l","l","o"," ","t","h","e","r","e">>

\* "This is a legal dispute, contacting my attorney"
BODY_LEGAL == <<"T","h","i","s"," ","i","s"," ","a"," ","l","e","g","a","l"," ","d","i","s","p","u","t","e",","," ","c","o","n","t","a","c","t","i","n","g"," ","m","y"," ","a","t","t","o","r","n","e","y">>

\* "See you in COURT"
BODY_COURT_UPPER == <<"S","e","e"," ","y","o","u"," ","i","n"," ","C","O","U","R","T">>

\* "I want my Money Back"
BODY_MONEY_BACK == <<"I"," ","w","a","n","t"," ","m","y"," ","M","o","n","e","y"," ","B","a","c","k">>

\* "I returned the form"
BODY_RETURNED == <<"I"," ","r","e","t","u","r","n","e","d"," ","t","h","e"," ","f","o","r","m">>

\* "Refund now or I call my lawyer"
BODY_LEGAL_REFUND == <<"R","e","f","u","n","d"," ","n","o","w"," ","o","r"," ","I"," ","c","a","l","l"," ","m","y"," ","l","a","w","y","e","r">>

\* "the video is broken"
BODY_VIDEO == <<"t","h","e"," ","v","i","d","e","o"," ","i","s"," ","b","r","o","k","e","n">>

CoreBodies ==
  {BODY_EMPTY,
   BODY_HELLO,
   BODY_LEGAL,
   BODY_COURT_UPPER,
   BODY_MONEY_BACK,
   BODY_RETURNED,
   BODY_LEGAL_REFUND,
   BODY_VIDEO}

\* classification arguments of a direct call of the evaluator: None, {},
\* records with the three fields the evaluator reads, and two records that
\* leave fields to the defaults of dict.get
CoreClassifications ==
  {PyNone, EmptyDict}
    \cup [urgency : URGENCIES, sentiment : SENTIMENTS, confidence : CONFIDENCES]
    \cup {[category |-> "General Queries"],
          [urgency |-> "High", sentiment |-> "Negative"]}

\* subjects and body texts of the emails that go through the classifier
\* ""
SUBJECT_EMPTY == <<>>

\* "Refund"
SUBJECT_REFUND == <<"R","e","f","u","n","d">>

\* "Login help"
SUBJECT_LOGIN == <<"L","o","g","i","n"," ","h","e","l","p">>

\* ""
TEXT_EMPTY == <<>>

\* "hello there"
TEXT_HELLO == <<"h","e","l","l","o"," ","t","h","e","r","e">>

\* "refund and login"
TEXT_REFUND_LOGIN == <<"r","e","f","u","n","d"," ","a","n","d"," ","l","o","g","i","n">>

\* "Login ERROR, it is broken"
TEXT_LOGIN_ERROR == <<"L","o","g","i","n"," ","E","R","R","O","R",","," ","i","t"," ","i","s"," ","b","r","o","k","e","n">>

\* "my course certificate is great, thanks"
TEXT_CERTIFICATE == <<"m","y"," ","c","o","u","r","s","e"," ","c","e","r","t","i","f","i","c","a","t","e"," ","i","s"," ","g","r","e","a","t",","," ","t","h","a","n","k","s">>

\* "I have a problem with my password"
TEXT_PASSWORD == <<"I"," ","h","a","v","e"," ","a"," ","p","r","o","b","l","e","m"," ","w","i","t","h"," ","m","y"," ","p","a","s","s","w","o","r","d">>

\* "course email"
TEXT_COURSE_EMAIL == <<"c","o","u","r","s","e"," ","e","m","a","i","l">>

\* "urgent: this is terrible and awful"
TEXT_URGENT == <<"u","r","g","e","n","t",":"," ","t","h","i","s"," ","i","s"," ","t","e","r","r","i","b","l","e"," ","a","n","d"," ","a","w","f","u","l">>

\* "contacting my attorney"
TEXT_ATTORNEY == <<"c","o","n","t","a","c","t","i","n","g"," ","m","y"," ","a","t","t","o","r","n","e","y">>

\* "the platform is slow"
TEXT_PLATFORM == <<"t","h","e"," ","p","l","a","t","f","o","r","m"," ","i","s"," ","s","l","o","w">>

Subjects == {SUBJECT_EMPTY, SUBJECT_REFUND, SUBJECT_LOGIN}

Texts ==
  {TEXT_EMPTY,
   TEXT_HELLO,
   TEXT_REFUND_LOGIN,
   TEXT_LOGIN_ERROR,
   TEXT_CERTIFICATE,
   TEXT_PASSWORD,
   TEXT_COURSE_EMAIL,
   TEXT_URGENT,
   TEXT_ATTORNEY,
   TEXT_PLATFORM}

\* text followed by filler characters up to length n (text itself when it is
\* already that long); the filler occurs in no keyword
RECURSIVE PadTo(_, _)
PadTo(text, n) == IF Len(text) >= n THEN text ELSE PadTo(text \o <<".">>, n)

\* body lengths: unpadded, and the lengths that with an empty subject put
\* len(subject + " " + body) on both sides of the two length thresholds
BodyLengths == {0, LEN_MEDIUM - 1, LEN_MEDIUM, LEN_LONG - 1, LEN_LONG}

EmailBodies == {PadTo(text, n) : text \in Texts, n \in BodyLengths}

\* texts of the direct calls of _classify_sub_category
\* ""
SUBTEXT_EMPTY == <<>>

\* "hello there"
SUBTEXT_HELLO == <<"h","e","l","l","o"," ","t","h","e","r","e">>

\* "My INVOICE shows the wrong price"
SUBTEXT_INVOICE_PRICE == <<"M","y"," ","I","N","V","O","I","C","E"," ","s","h","o","w","s"," ","t","h","e"," ","w","r","o","n","g"," ","p","r","i","c","e">>

\* "password reset for Login"
SUBTEXT_PASSWORD_LOGIN == <<"p","a","s","s","w","o","r","d"," ","r","e","s","e","t"," ","f","o","r"," ","L","o","g","i","n">>

\* "video download in Chrome"
SUBTEXT_VIDEO_CHROME == <<"v","i","d","e","o"," ","d","o","w","n","l","o","a","d"," ","i","n"," ","C","h","r","o","m","e">>

\* "how long is the course content"
SUBTEXT_LONG_CONTENT == <<"h","o","w"," ","l","o","n","g"," ","i","s"," ","t","h","e"," ","c","o","u","r","s","e"," ","c","o","n","t","e","n","t">>

\* "please delete my email"
SUBTEXT_DELETE_EMAIL == <<"p","l","e","a","s","e"," ","d","e","l","e","t","e"," ","m","y"," ","e","m","a","i","l">>

\* "cancel and return"
SUBTEXT_CANCEL_RETURN == <<"c","a","n","c","e","l"," ","a","n","d"," ","r","e","t","u","r","n">>

SubCategoryTexts ==
  {SUBTEXT_EMPTY,
   SUBTEXT_HELLO,
   SUBTEXT_INVOICE_PRICE,
   SUBTEXT_PASSWORD_LOGIN,
   SUBTEXT_VIDEO_CHROME,
   SUBTEXT_LONG_CONTENT,
   SUBTEXT_DELETE_EMAIL,
   SUBTEXT_CANCEL_RETURN}

\* category arguments of those calls: the configured categories and one that
\* is not configured
CATEGORY_ARGUMENTS ==
  {"Technical Issues", "Payment & Billing", "Course Content",
   "Account Management", "General Queries", "Shipping"}

\* emails of a batch request; raises says that a call made for the email
\* inside the per-email try block raises an exception
BATCH_EMAILS ==
  {[email_id |-> "E-1", subject |-> SUBJECT_LOGIN, body |-> BODY_HELLO,
    contact_count |-> 1],
   [email_id |-> "E-2", subject |-> SUBJECT_EMPTY, body |-> BODY_LEGAL,
    contact_count |-> 1],
   [email_id |-> "E-3", subject |-> SUBJECT_EMPTY, body |-> BODY_VIDEO,
    contact_count |-> 2]}

BatchItems ==
  {[email |-> e, raises |-> r] : e \in BATCH_EMAILS, r \in BOOLEAN}

\* longest batch request
MaxBatch == 3

RECURSIVE SeqsUpTo(_, _)
\* the sequences over S of length at most n
SeqsUpTo(S, n) ==
  IF n = 0
  THEN {<< >>}
  ELSE LET shorter == SeqsUpTo(S, n - 1)
       IN  shorter \cup {Append(s, x) : s \in {q \in shorter : Len(q) = n - 1}, x \in S}

(***************************************************************************)
(* The state machine                                                       *)
(***************************************************************************)
\* no request is being handled
NoTicket ==
  [pc |-> "idle", endpoint |-> "none", email_id |-> "none",
   escalation_summary |-> PyNone, draft_reply |-> PyNone, response |-> PyNone]

NoBatch ==
  [pc |-> "idle", emails |-> << >>, results |-> << >>, response |-> PyNone]

\* A direct call of the evaluator: any classification, no subject.
Init ==
  /\ subject = << >>
  /\ body \in CoreBodies
  /\ contact_count \in 0..MaxContact
  /\ classification \in CoreClassifications
  /\ call = "none"
  /\ ret = Return(PyNone)
  /\ ticket = NoTicket
  /\ batch = NoBatch

\* An email that goes through the classifier first: no classification yet.
InitEmail ==
  /\ subject \in Subjects
  /\ body \in EmailBodies
  /\ contact_count \in 0..MaxContact
  /\ classification = PyNone
  /\ call = "none"
  /\ ret = Return(PyNone)
  /\ ticket = NoTicket
  /\ batch = NoBatch

\* classifier.classify(subject, body); its record is the classification the
\* evaluator is then called with
Classify ==
  /\ call' = "classify"
  /\ classification' = classify(subject, body)
  /\ ret' = Return(classification')
  /\ UNCHANGED <<subject, body, contact_count, ticket, batch>>

\* Evaluate that hands the evaluator the subject together with the body
Evaluate_scans_subject ==
  /\ call' = "evaluate"
  /\ ret' = Return(evaluate(classification, subject \o <<" ">> \o body,
                            contact_count))
  /\ UNCHANGED <<subject, body, contact_count, classification, ticket, batch>>

\* EscalationRules.evaluate(classification, body, contact_count)
Evaluate ==
  /\ call' = "evaluate"
  /\ ret' = Return(evaluate(classification, body, contact_count))
  /\ UNCHANGED <<subject, body, contact_count, classification, ticket, batch>>

\* EscalationRules.get_escalation_priority(classification, body, contact_count)
GetEscalationPriority ==
  /\ call' = "get_escalation_priority"
  /\ ret' = get_escalation_priority(classification, body, contact_count)
  /\ UNCHANGED <<subject, body, contact_count, classification, ticket, batch>>

\* EscalationRules.format_escalation_summary(classification, body, contact_count)
FormatEscalationSummary ==
  /\ call' = "format_escalation_summary"
  /\ ret' = format_escalation_summary(classification, body, contact_count)
  /\ UNCHANGED <<subject, body, contact_count, classification, ticket, batch>>

Next ==
  \/ Classify
  \/ Evaluate
  \/ GetEscalationPriority
  \/ FormatEscalationSummary

\* calls of the evaluator with any classification
Spec == Init /\ [][Next]_vars

\* emails that are classified and then evaluated
SpecEmail == InitEmail /\ [][Next]_vars

\* A subject and a body whose text is handed to _classify_sub_category.
InitSubCategory ==
  /\ subject \in Subjects
  /\ body \in SubCategoryTexts
  /\ contact_count = 1
  /\ classification = PyNone
  /\ call = "none"
  /\ ret = Return(PyNone)
  /\ ticket = NoTicket
  /\ batch = NoBatch

\* self._classify_sub_category(category, text) with the text classify builds
\* (classify.py:31); classification records the category argument
ClassifySubCategory ==
  \E category \in CATEGORY_ARGUMENTS :
    /\ call' = "_classify_sub_category"
    /\ classification' = [category |-> category]
    /\ ret' = Return(_classify_sub_category(category,
                                            lower(subject \o <<" ">> \o body)))
    /\ UNCHANGED <<subject, body, contact_count, ticket, batch>>

\* calls of _classify_sub_category with any category
SpecSubCategory == InitSubCategory /\ [][ClassifySubCategory]_vars

\* the two endpoints that process one ticket; their code is the same
ENDPOINTS == {"process_ticket", "webhook_process_email"}

HTTPException(status_code) == [py |-> "HTTPException", status_code |-> status_code]

\* A request at one of the endpoints, before its first statement.
InitTicket ==
  /\ subject \in Subjects
  /\ body \in EmailBodies
  /\ contact_count \in 0..MaxContact
  /\ classification = PyNone
  /\ call = "none"
  /\ ret = Return(PyNone)
  /\ ticket \in {[NoTicket EXCEPT !.pc = "classify", !.endpoint = e,
                                  !.email_id = "T-1"] : e \in ENDPOINTS}
  /\ batch = NoBatch

\* classification = classifier.classify(email.subject, email.body)
TicketClassify ==
  /\ ticket.pc = "classify"
  /\ classification' = classify(subject, body)
  /\ ticket' = [ticket EXCEPT !.pc = "evaluate"]
  /\ UNCHANGED <<subject, body, contact_count, call, ret, batch>>

\* escalation_summary = EscalationRules.format_escalation_summary(...); an
\* exception goes to the handler's except clause
TicketEvaluate ==
  /\ ticket.pc = "evaluate"
  /\ LET summary == format_escalation_summary(classification, body, contact_count)
     IN  ticket' = IF summary.raised
                   THEN [ticket EXCEPT !.pc = "done",
                                       !.response = HTTPException(400)]
                   ELSE [ticket EXCEPT !.pc = "reply",
                                       !.escalation_summary = summary.value]
  /\ UNCHANGED <<subject, body, contact_count, classification, call, ret, batch>>

\* TicketReply that drafts a reply for every ticket
TicketReply_always_drafts ==
  /\ ticket.pc = "reply"
  /\ ticket' = [ticket EXCEPT
                  !.pc = "respond",
                  !.draft_reply =
                     generate_with_fallback(
                       subject, body,
                       Get(classification, "category", "General Queries"),
                       Get(classification, "sentiment", "Neutral"))[1]]
  /\ UNCHANGED <<subject, body, contact_count, classification, call, ret, batch>>

\* draft_reply = None; if not escalate: reply, source = generate_with_fallback(...)
TicketReply ==
  /\ ticket.pc = "reply"
  /\ LET escalate == Get(ticket.escalation_summary, "should_escalate", FALSE)
     IN  ticket' = [ticket EXCEPT
                     !.pc = "respond",
                     !.draft_reply =
                        IF ~escalate
                        THEN generate_with_fallback(
                               subject, body,
                               Get(classification, "category", "General Queries"),
                               Get(classification, "sentiment", "Neutral"))[1]
                        ELSE PyNone]
  /\ UNCHANGED <<subject, body, contact_count, classification, call, ret, batch>>

\* status = ...; return TicketResponse(...)   (processed_at, the clock's
\* reading, is left out)
TicketRespond ==
  /\ ticket.pc = "respond"
  /\ LET escalate == Get(ticket.escalation_summary, "should_escalate", FALSE)
     IN  ticket' = [ticket EXCEPT
           !.pc = "done",
           !.response =
              [email_id |-> ticket.email_id,
               subject |-> subject,
               category |-> Get(classification, "category", "General Queries"),
               sub_category |-> Get(classification, "sub_category", "Unknown"),
               urgency |-> Get(classification, "urgency", "Low"),
               sentiment |-> Get(classification, "sentiment", "Neutral"),
               confidence |-> Get(classification, "confidence", 0),
               status |-> IF escalate THEN "Escalated to Human" ELSE "Auto-Drafted",
               escalate |-> escalate,
               escalation_reason |-> Get(ticket.escalation_summary, "reason", PyNone),
               escalation_priority |-> Get(ticket.escalation_summary, "priority", PyNone),
               draft_reply |-> ticket.draft_reply]]
  /\ UNCHANGED <<subject, body, contact_count, classification, call, ret, batch>>

NextTicket ==
  \/ TicketClassify
  \/ TicketEvaluate
  \/ TicketReply
  \/ TicketRespond

\* one ticket through process_ticket or webhook_process_email
SpecTicket == InitTicket /\ [][NextTicket]_vars

\* round(confidence, 2), in units of 0.0001 (no modelled confidence is a tie)
round2(confidence) == ((confidence + 50) \div 100) * 100

\* the dict appended for an email whose processing succeeds (processed_at,
\* the clock's reading, is left out)
batch_result(email) ==
  LET cls == classify(email.subject, email.body)
      escalation_summary ==
        format_escalation_summary(cls, email.body, email.contact_count).value
      escalate == Get(escalation_summary, "should_escalate", FALSE)
      category == Get(cls, "category", "General Queries")
      sentiment == Get(cls, "sentiment", "Neutral")
  IN  [email_id |-> email.email_id,
       subject |-> email.subject,
       category |-> category,
       sub_category |-> Get(cls, "sub_category", "Unknown"),
       urgency |-> Get(cls, "urgency", "Low"),
       sentiment |-> sentiment,
       confidence |-> round2(Get(cls, "confidence", 0)),
       status |-> IF escalate THEN "Escalated to Human" ELSE "Auto-Drafted",
       escalate |-> escalate,
       escalation_reason |-> Get(escalation_summary, "reason", PyNone),
       escalation_priority |-> Get(escalation_summary, "priority", PyNone),
       draft_reply |-> IF ~escalate
                       THEN generate_with_fallback(email.subject, email.body,
                                                   category, sentiment)[1]
                       ELSE PyNone]

\* the dict appended by the per-email except clause; error is str(e)
batch_error(email) ==
  [email_id |-> email.email_id, error |-> "str(e)", status |-> "Error"]

\* sum(1 for r in results if r.get("escalate", False))
count_escalated(results) ==
  Cardinality({i \in 1..Len(results) : Get(results[i], "escalate", FALSE)})

\* a breakdown dict: per value of the field, the number of results without
\* "error" that have it
breakdown(results, field) ==
  LET counted == {i \in 1..Len(results) : "error" \notin DOMAIN results[i]}
  IN  [v \in {Get(results[i], field, "Unknown") : i \in counted} |->
         Cardinality({i \in counted : Get(results[i], field, "Unknown") = v})]

\* f"{(escalated/total)*100:.1f}%" if total > 0 else "0%"; the argument is
\* the rate in tenths of a percent
escalation_rate(escalated, total) ==
  IF total > 0
  THEN FStr("{:.1f}%", <<(escalated * 2000 + total) \div (2 * total)>>)
  ELSE Str("0%")

\* total = len(results) ... summary = SummaryReport(...)
SummaryReport(results) ==
  LET total == Len(results)
      escalated == count_escalated(results)
      auto_drafted == total - escalated
  IN  [total_tickets |-> total,
       auto_drafted |-> auto_drafted,
       escalated |-> escalated,
       escalation_rate |-> escalation_rate(escalated, total),
       urgency_breakdown |-> breakdown(results, "urgency"),
       sentiment_breakdown |-> breakdown(results, "sentiment"),
       category_breakdown |-> breakdown(results, "category")]

\* A batch request before the loop: results = [].
InitBatch ==
  /\ subject = << >>
  /\ body = << >>
  /\ contact_count = 1
  /\ classification = PyNone
  /\ call = "none"
  /\ ret = Return(PyNone)
  /\ ticket = NoTicket
  /\ batch \in {[pc |-> "loop", emails |-> es, results |-> << >>,
                  response |-> PyNone] : es \in SeqsUpTo(BatchItems, MaxBatch)}

\* BatchProcessEmail in which an exception leaves the loop and the handler
BatchProcessEmail_abort_on_error ==
  /\ batch.pc = "loop"
  /\ Len(batch.results) < Len(batch.emails)
  /\ LET item == batch.emails[Len(batch.results) + 1]
     IN  /\ subject' = item.email.subject
         /\ body' = item.email.body
         /\ contact_count' = item.email.contact_count
         /\ batch' = IF item.raises
                      THEN [batch EXCEPT !.pc = "done",
                                         !.response = HTTPException(400)]
                      ELSE [batch EXCEPT
                              !.results = Append(@, batch_result(item.email))]
  /\ UNCHANGED <<classification, call, ret, ticket>>

\* one iteration of `for email in request.emails`: the try block, or the
\* except clause when a call in it raises
BatchProcessEmail ==
  /\ batch.pc = "loop"
  /\ Len(batch.results) < Len(batch.emails)
  /\ LET item == batch.emails[Len(batch.results) + 1]
     IN  /\ subject' = item.email.subject
         /\ body' = item.email.body
         /\ contact_count' = item.email.contact_count
         /\ batch' = [batch EXCEPT
                        !.results = Append(@, IF item.raises
                                              THEN batch_error(item.email)
                                              ELSE batch_result(item.email))]
  /\ UNCHANGED <<classification, call, ret, ticket>>

\* after the loop: the summary and the returned dict
BatchSummarize ==
  /\ batch.pc = "loop"
  /\ Len(batch.results) = Len(batch.emails)
  /\ batch' = [batch EXCEPT
                 !.pc = "done",
                 !.response = [status |-> "success",
                               tickets |-> batch.results,
                               summary |-> SummaryReport(batch.results)]]
  /\ UNCHANGED <<subject, body, contact_count, classification, call, ret, ticket>>

NextBatch ==
  \/ BatchProcessEmail
  \/ BatchSummarize

\* one request through batch_process
SpecBatch == InitBatch /\ [][NextBatch]_vars

(***************************************************************************)
(* What the inputs contain, written down per input (the keyword scans of   *)
(* the model are checked against these, not used to state them)            *)
(***************************************************************************)
\* core bodies with a legal-threat keyword: "legal"/"dispute"/"attorney",
\* "COURT", "lawyer"
LegalBodies == {BODY_LEGAL, BODY_COURT_UPPER, BODY_LEGAL_REFUND}

\* core bodies with a refund-demand keyword: "Money Back", "return" (in
\* "returned"), "Refund"
RefundBodies == {BODY_MONEY_BACK, BODY_RETURNED, BODY_LEGAL_REFUND}

\* core bodies with neither
PlainBodies == CoreBodies \ (LegalBodies \cup RefundBodies)

EvaluatorCalls ==
  {"evaluate", "get_escalation_priority", "format_escalation_summary"}

\* the fields of the classification as the evaluator reads them
Urgency == Get(classification, "urgency", "Low")

Sentiment == Get(classification, "sentiment", "Neutral")

Confidence == Get(classification, "confidence", 0)

(***************************************************************************)
(* Claims about the escalation evaluator (specification Spec)              *)
(***************************************************************************)
\* C1, as claimed: for a body with a legal-threat keyword and ANY
\* classification value (None and {} included), evaluate returns
\* (True, "Legal threat detected") and get_escalation_priority returns
\* "Critical".
C1_LegalAnyClassification ==
  body \in LegalBodies =>
    /\ call = "evaluate" =>
         ret = Return(<<TRUE, Str("Legal threat detected")>>)
    /\ call = "get_escalation_priority" => ret = Return("Critical")

\* C1, amended: for a body with a legal-threat keyword and any non-empty
\* classification record (whatever its urgency, sentiment and confidence,
\* for every contact_count), evaluate returns (True, "Legal threat
\* detected") and get_escalation_priority returns "Critical".
C1_LegalNonEmptyClassification ==
  (body \in LegalBodies /\ Truthy(classification)) =>
    /\ call = "evaluate" =>
         ret = Return(<<TRUE, Str("Legal threat detected")>>)
    /\ call = "get_escalation_priority" => ret = Return("Critical")

\* C1 witness: evaluate has answered "Legal threat detected" for the body
\* "See you in COURT" and a Low / Positive / 0.0 classification.
C1_Witness ==
  /\ call = "evaluate"
  /\ body = BODY_COURT_UPPER
  /\ classification = [urgency |-> "Low", sentiment |-> "Positive", confidence |-> 0]
  /\ contact_count = 0
  /\ ret = Return(<<TRUE, Str("Legal threat detected")>>)

\* C2, as claimed: High urgency, Negative sentiment, confidence >= 0.85,
\* contact_count >= 2 and a body with no legal or refund keyword: evaluate
\* returns should_escalate = True with a reason that carries the contact
\* count and the confidence.
C2_RepeatedContactEscalates ==
  ( /\ call = "evaluate"
    /\ Truthy(classification)
    /\ Urgency = "High" /\ Sentiment = "Negative" /\ Confidence >= 8500
    /\ contact_count >= 2
    /\ body \in PlainBodies )
  => /\ ret.value[1] = TRUE
     /\ ret.value[2].args = <<contact_count, Format2f(Confidence)>>

\* C3, as claimed: with classification None each of evaluate,
\* get_escalation_priority and format_escalation_summary completes normally
\* and reports the forced escalation; none of them raises.
C3_NullClassificationNeverFails ==
  (classification = PyNone /\ call \in EvaluatorCalls) =>
    /\ ~ret.raised
    /\ call = "evaluate" =>
         ret.value = <<TRUE, Str("No classification provided")>>
    /\ call = "format_escalation_summary" =>
         /\ ret.value.should_escalate
         /\ ret.value.reason = Str("No classification provided")

\* C4: in every decision format_escalation_summary returns, priority is
\* "None" iff should_escalate is false, and an escalated ticket carries one
\* of Critical / High / Medium / Low.
C4_PriorityNoneIffNotEscalated ==
  (call = "format_escalation_summary" /\ ~ret.raised) =>
    /\ (ret.value.priority = "None") <=> ~ret.value.should_escalate
    /\ ret.value.should_escalate =>
         ret.value.priority \in {"Critical", "High", "Medium", "Low"}

\* C4 witness: a summary of an escalated ticket, priority "Medium".
C4_Witness ==
  /\ call = "format_escalation_summary"
  /\ ~ret.raised
  /\ ret.value.should_escalate
  /\ ret.value.priority = "Medium"

C6_MediumNegativeNeverEscalates ==
  ( /\ call = "evaluate"
    /\ Truthy(classification)
    /\ Urgency = "Medium" /\ Sentiment = "Negative"
    /\ body \in PlainBodies )
  => ret.value[1] = FALSE

\* C6 witness: Medium / Negative at confidence 0.99 and contact_count 2 was
\* not escalated.
C6_Witness ==
  /\ call = "evaluate"
  /\ Urgency = "Medium" /\ Sentiment = "Negative" /\ Confidence = 9900
  /\ contact_count = 2
  /\ body \in PlainBodies
  /\ ret.value[1] = FALSE

\* C7: for a non-empty classification, a body with a refund-demand keyword
\* and no legal keyword gives (True, "Refund demand detected") and priority
\* "Critical" whatever the urgency, sentiment, confidence and contact_count;
\* a body with both a legal and a refund keyword gives "Legal threat
\* detected".
C7_RefundRuleAndOrder ==
  Truthy(classification) =>
    /\ (body \in RefundBodies \ LegalBodies /\ call = "evaluate") =>
         ret = Return(<<TRUE, Str("Refund demand detected")>>)
    /\ (body \in RefundBodies \ LegalBodies /\ call = "get_escalation_priority") =>
         ret = Return("Critical")
    /\ (body \in RefundBodies \cap LegalBodies /\ call = "evaluate") =>
         ret = Return(<<TRUE, Str("Legal threat detected")>>)

\* C7 witness: evaluate has answered "Refund demand detected" for the body
\* "I want my Money Back" and a Low / Neutral classification.
C7_Witness ==
  /\ call = "evaluate"
  /\ body = BODY_MONEY_BACK
  /\ Urgency = "Low" /\ Sentiment = "Neutral"
  /\ Truthy(classification)
  /\ ret = Return(<<TRUE, Str("Refund demand detected")>>)

(***************************************************************************)
(* Claims about the classifier (specification SpecEmail)                   *)
(***************************************************************************)
\* body is text, or text followed by filler only
IsPadded(text, b) ==
  /\ Len(b) >= Len(text)
  /\ SubSeq(b, 1, Len(text)) = text
  /\ \A i \in (Len(text) + 1)..Len(b) : b[i] = "."

\* the subjects and texts that hold a keyword of each category group:
\* "Refund" / "refund"; "Login", "login", "ERROR", "broken", "platform";
\* "course", "certificate"; "password", "email"
PaymentSubjects == {SUBJECT_REFUND}

PaymentTexts == {TEXT_REFUND_LOGIN}

TechnicalSubjects == {SUBJECT_LOGIN}

TechnicalTexts == {TEXT_REFUND_LOGIN, TEXT_LOGIN_ERROR, TEXT_PLATFORM}

CourseTexts == {TEXT_CERTIFICATE, TEXT_COURSE_EMAIL}

AccountTexts == {TEXT_PASSWORD, TEXT_COURSE_EMAIL}

\* subject + " " + body holds a keyword of the group
Mentions(subjects, texts) ==
  \/ subject \in subjects
  \/ \E text \in texts : IsPadded(text, body)

\* len(subject + " " + body)
TextLength == Len(subject) + 1 + Len(body)

FIVE_CATEGORIES ==
  {"Technical Issues", "Payment & Billing", "Course Content",
   "Account Management", "General Queries"}

\* C8: classify always returns a complete record: category one of the five
\* fixed categories, sub_category a non-empty member of that category's
\* declared list and never "Unknown", urgency in {High, Medium, Low},
\* sentiment in {Positive, Negative, Neutral}, confidence in [0, 1].
C8_ClassifyWellFormed ==
  call = "classify" =>
    /\ ~ret.raised
    /\ DOMAIN ret.value = {"category", "sub_category", "urgency", "sentiment",
                           "confidence", "escalate_to_human"}
    /\ ret.value.category \in FIVE_CATEGORIES
    /\ ret.value.category \in DOMAIN SUPPORT_CATEGORIES
    /\ \E k \in 1..Len(SUPPORT_CATEGORIES[ret.value.category]) :
         SUPPORT_CATEGORIES[ret.value.category][k] = ret.value.sub_category
    /\ ret.value.sub_category \notin {"", "Unknown"}
    /\ ret.value.urgency \in {"High", "Medium", "Low"}
    /\ ret.value.sentiment \in {"Positive", "Negative", "Neutral"}
    /\ ret.value.confidence >= 0 /\ ret.value.confidence <= 10000
    /\ ret.value.escalate_to_human \in BOOLEAN

\* C8 witness: the empty subject and the empty body have been classified
\* (General Queries / Inquiry).
C8_Witness ==
  /\ call = "classify"
  /\ subject = << >> /\ body = << >>
  /\ ret.value.category = "General Queries"
  /\ ret.value.sub_category = "Inquiry"

\* C9: the category is the first group, in the order Payment & Billing,
\* Technical Issues, Course Content, Account Management, that has a keyword
\* in the lower-cased subject + " " + body, and General Queries iff no group
\* has one; a text with both "refund" and "login" is Payment & Billing.
C9_CategoryFirstMatch ==
  call = "classify" =>
    /\ ret.value.category =
         IF Mentions(PaymentSubjects, PaymentTexts) THEN "Payment & Billing"
         ELSE IF Mentions(TechnicalSubjects, TechnicalTexts) THEN "Technical Issues"
         ELSE IF Mentions({}, CourseTexts) THEN "Course Content"
         ELSE IF Mentions({}, AccountTexts) THEN "Account Management"
         ELSE "General Queries"
    /\ IsPadded(TEXT_REFUND_LOGIN, body) =>
         ret.value.category = "Payment & Billing"

\* C9 witness: "refund and login" under the subject "Login help" has been
\* classified Payment & Billing.
C9_Witness ==
  /\ call = "classify"
  /\ subject = SUBJECT_LOGIN
  /\ body = TEXT_REFUND_LOGIN
  /\ ret.value.category = "Payment & Billing"

\* C10: confidence is 0.70, plus 0.15 when the category is not General
\* Queries, plus 0.10 when len(subject + " " + body) > 100 or else 0.05 when
\* it is > 50, capped at 1.0 (the sums are those of the doubles); lengths of
\* exactly 50 and exactly 100 get the lower bonus; a non-General category
\* has confidence >= 0.85, and >= 0.95 when the text is longer than 100.
C10_ConfidenceFormula ==
  call = "classify" =>
    LET n        == TextLength
        specific == ret.value.category # "General Queries"
        bonus    == IF n > 100 THEN 1000 ELSE IF n > 50 THEN 500 ELSE 0
        sum      == FloatAdd(FloatAdd(7000, IF specific THEN 1500 ELSE 0), bonus)
        conf     == ret.value.confidence
    IN  /\ conf = IF sum > 10000 THEN 10000 ELSE sum
        /\ n = 50  => conf = IF specific THEN 8500 ELSE 7000
        /\ n = 100 => conf = IF specific THEN 9000 ELSE 7500
        /\ specific => conf >= 8500
        /\ (specific /\ n > 100) => conf >= 9500

\* C10 witness: a text of exactly 100 characters in a non-General category
\* has been given confidence 0.90.
C10_Witness ==
  /\ call = "classify"
  /\ TextLength = 100
  /\ ret.value.category # "General Queries"
  /\ ret.value.confidence = 9000

(***************************************************************************)
(* Claims about the sub-category (specification SpecSubCategory)           *)
(***************************************************************************)
\* the sub-categories each subject and text holds a keyword of:
\* "Login" (Platform Access, Account Login); "Refund"; "INVOICE", "price";
\* "password", "reset", "Login"; "video", "download", "Chrome"; "long",
\* "content"; "delete", "email"; "cancel", "return"
SUBJECT_SUB_CATEGORIES ==
  {<<SUBJECT_LOGIN, "Platform Access">>, <<SUBJECT_LOGIN, "Account Login">>,
   <<SUBJECT_REFUND, "Refund Request">>}

TEXT_SUB_CATEGORIES ==
  {<<SUBTEXT_INVOICE_PRICE, "Invoice">>, <<SUBTEXT_INVOICE_PRICE, "Course Pricing">>,
   <<SUBTEXT_PASSWORD_LOGIN, "Platform Access">>,
   <<SUBTEXT_PASSWORD_LOGIN, "Account Login">>,
   <<SUBTEXT_PASSWORD_LOGIN, "Password Reset">>,
   <<SUBTEXT_VIDEO_CHROME, "Video Playback">>,
   <<SUBTEXT_VIDEO_CHROME, "Course Materials">>,
   <<SUBTEXT_VIDEO_CHROME, "Browser Compatibility">>,
   <<SUBTEXT_LONG_CONTENT, "Course Materials">>,
   <<SUBTEXT_LONG_CONTENT, "Course Duration">>,
   <<SUBTEXT_LONG_CONTENT, "Content Quality">>,
   <<SUBTEXT_DELETE_EMAIL, "Account Deletion">>,
   <<SUBTEXT_DELETE_EMAIL, "Email Change">>,
   <<SUBTEXT_CANCEL_RETURN, "Refund Request">>,
   <<SUBTEXT_CANCEL_RETURN, "Subscription">>}

MentionsSubCategory(sub_category) ==
  \/ <<subject, sub_category>> \in SUBJECT_SUB_CATEGORIES
  \/ <<body, sub_category>> \in TEXT_SUB_CATEGORIES

\* the first sub-category, in declared order, that the text mentions, else
\* the first declared one; "Unknown" for a category that is not configured
ExpectedSubCategory(category) ==
  IF category \notin FIVE_CATEGORIES
  THEN "Unknown"
  ELSE
    LET declared == SUPPORT_CATEGORIES[category]
        hits == {k \in 1..Len(declared) : MentionsSubCategory(declared[k])}
    IN  IF hits # {}
        THEN declared[CHOOSE k \in hits : \A h \in hits : k <= h]
        ELSE declared[1]

\* C11: the sub-category is the first one, in the mapping's declared order,
\* with a keyword in the text; when none matches, or the category has no
\* mapping (General Queries), it is the category's first declared
\* sub-category; "Unknown" is returned only for a category that is not in
\* the configuration.
C11_SubCategoryFirstMatch ==
  call = "_classify_sub_category" =>
    /\ ret.value = ExpectedSubCategory(classification.category)
    /\ (ret.value = "Unknown") <=> (classification.category \notin FIVE_CATEGORIES)
    /\ classification.category = "General Queries" => ret.value = "Inquiry"

\* C11 witness: "My INVOICE shows the wrong price" in Payment & Billing has
\* been given Invoice, the first of the two sub-categories it mentions.
C11_Witness ==
  /\ call = "_classify_sub_category"
  /\ subject = SUBJECT_EMPTY
  /\ body = SUBTEXT_INVOICE_PRICE
  /\ classification.category = "Payment & Billing"
  /\ ret.value = "Invoice"

(***************************************************************************)
(* Claims about the endpoints (specification SpecTicket)                   *)
(***************************************************************************)
EscalationSummary == ticket.escalation_summary

\* where the handler stands: nothing is evaluated before the classification
\* exists, nothing is drafted before the evaluation exists, and a draft
\* exists only for a ticket the evaluator does not escalate
TicketOrder ==
  /\ classification = PyNone => EscalationSummary = PyNone
  /\ EscalationSummary = PyNone => ticket.draft_reply = PyNone
  /\ EscalationSummary # PyNone =>
       EscalationSummary.should_escalate = evaluate(classification, body, contact_count)[1]
  /\ ticket.draft_reply # PyNone => EscalationSummary.should_escalate = FALSE

\* the response of a ticket
TicketOutcome ==
  (ticket.pc = "done") =>
    LET response == ticket.response
    IN  /\ response.category = classification.category
        /\ response.escalate = EscalationSummary.should_escalate
        /\ (response.draft_reply # PyNone) <=> (response.escalate = FALSE)
        /\ (response.status = "Escalated to Human") <=> (response.escalate = TRUE)
        /\ (response.status = "Auto-Drafted") <=> (response.escalate = FALSE)
        /\ (response.escalate = FALSE) => (response.escalation_reason = PyNone)

\* each step happens after the ones before it and leaves their results alone
TicketStep ==
  /\ classification' # classification =>
       /\ classification = PyNone
       /\ EscalationSummary = PyNone
  /\ EscalationSummary' # EscalationSummary =>
       /\ EscalationSummary = PyNone
       /\ classification # PyNone
       /\ classification' = classification
       /\ ticket.draft_reply = PyNone
  /\ ticket.draft_reply' # ticket.draft_reply =>
       /\ EscalationSummary # PyNone
       /\ EscalationSummary.should_escalate = FALSE
       /\ EscalationSummary' = EscalationSummary
       /\ classification' = classification
  /\ ticket.response' # ticket.response =>
       /\ EscalationSummary # PyNone
       /\ EscalationSummary' = EscalationSummary
       /\ ticket.draft_reply' = ticket.draft_reply

\* C12: every processed ticket is classified first, then evaluated, and a
\* draft reply is produced only afterwards and only when the evaluator says
\* do-not-escalate; in the response draft_reply is present iff escalate is
\* false, status is "Escalated to Human" iff escalate is true and
\* "Auto-Drafted" otherwise, and escalation_reason is absent whenever
\* escalate is false.
C12_TicketOrderAndOutcome ==
  /\ [](TicketOrder /\ TicketOutcome)
  /\ [][TicketStep]_vars

\* C12 witness: a ticket has been answered with a draft reply, not escalated.
C12_Witness ==
  /\ ticket.pc = "done"
  /\ ticket.response.escalate = FALSE
  /\ ticket.response.status = "Auto-Drafted"
  /\ ticket.response.draft_reply # PyNone

(***************************************************************************)
(* Claims about batch_process (specification SpecBatch)                    *)
(***************************************************************************)
\* the positions of the request's emails whose processing succeeds
Succeeded == {i \in 1..Len(batch.emails) : ~batch.emails[i].raises}

\* what the evaluator decides for the three emails, written down per email:
\* E-2 has a legal body; E-1 is Low/Neutral, E-3 is High/Negative at 0.85
EscalatedEmails == {"E-2"}

SucceededEscalated ==
  {i \in Succeeded : batch.emails[i].email.email_id \in EscalatedEmails}

ExpectedStatus(email_id) ==
  IF email_id \in EscalatedEmails THEN "Escalated to Human" ELSE "Auto-Drafted"

\* C14: for any sequence of emails and any subset of them whose processing
\* fails, batch_process keeps one result per email handled so far and, at
\* its end, returns status "success" and a tickets list with exactly one entry per input email in input order; a
\* failing email yields an entry with status "Error" and its email_id, and
\* the entry of every other email is the one the email gets by itself.
C14_BatchErrorIsolation ==
  /\ (batch.pc = "loop") =>
       /\ batch.response = PyNone
       /\ Len(batch.results) <= Len(batch.emails)
       /\ \A i \in 1..Len(batch.results) :
            batch.results[i].email_id = batch.emails[i].email.email_id
  /\ (batch.pc = "done") =>
       /\ batch.response # HTTPException(400)
       /\ batch.response.status = "success"
       /\ Len(batch.response.tickets) = Len(batch.emails)
       /\ \A i \in 1..Len(batch.emails) :
            LET item == batch.emails[i]
                entry == batch.response.tickets[i]
            IN  /\ entry.email_id = item.email.email_id
                /\ item.raises =>
                     /\ entry.status = "Error"
                     /\ "error" \in DOMAIN entry
                /\ ~item.raises =>
                     /\ "error" \notin DOMAIN entry
                     /\ entry.status = ExpectedStatus(item.email.email_id)
                     /\ entry = batch_result(item.email)

\* C14 witness: a batch has ended in which an email failed and a later email
\* was escalated.
C14_Witness ==
  /\ batch.pc = "done"
  /\ Len(batch.emails) >= 2
  /\ batch.emails[1].raises
  /\ ~batch.emails[2].raises
  /\ batch.response.tickets[1].status = "Error"
  /\ batch.response.tickets[2].status = "Escalated to Human"

(***************************************************************************)
(* Claims about the draft reply (specification SpecTicket)                 *)
(***************************************************************************)
\* the text stored under a key of a category's templates, None if there is
\* no such key
TemplateOf(category, key) ==
  LET category_templates == templates[category]
      keys == {k \in 1..Len(category_templates) : category_templates[k][1] = key}
  IN  IF keys = {} THEN PyNone
      ELSE Str(category_templates[CHOOSE k \in keys : TRUE][2])

\* C15: the draft reply of a non-escalated ticket is the template stored
\* under the ticket's own sub_category in its category, else the category's
\* "default" template; the sentiment-keyed generic reply is used only when
\* the category has no template.
C15_ReplyBySubCategory ==
  (ticket.pc = "done" /\ ticket.response.escalate = FALSE) =>
    LET response == ticket.response
        own == TemplateOf(response.category, response.sub_category)
    IN  response.draft_reply =
          IF own # PyNone THEN own ELSE TemplateOf(response.category, "default")

(***************************************************************************)
(* Claims about priority and decision (specification Spec)                 *)
(***************************************************************************)
\* the priority chain of an escalated ticket
PriorityChain ==
  IF body \in LegalBodies \cup RefundBodies THEN "Critical"
  ELSE IF Urgency = "High" /\ Sentiment = "Negative" THEN "High"
  ELSE IF contact_count >= 2 THEN "Medium"
  ELSE "Low"

\* C16: whenever should_escalate is true, the priority is Critical if the
\* body has a legal or refund keyword; else High if urgency = High and
\* sentiment = Negative, even when contact_count >= 2; else Medium if
\* contact_count >= 2; else Low.
C16_PriorityChain ==
  ( /\ call = "get_escalation_priority"
    /\ evaluate(classification, body, contact_count)[1] )
  => ret = Return(PriorityChain)

LegalEmailBody == IsPadded(TEXT_ATTORNEY, body)

RefundEmailBody == IsPadded(TEXT_REFUND_LOGIN, body)

\* subjects with a refund-demand keyword ("Refund")
RefundSubjects == {SUBJECT_REFUND}

C19_FlagIsUrgencyTest ==
  /\ call = "classify" =>
       /\ ret.value.confidence >= 7000
       /\ ret.value.confidence <= 9500
       /\ ret.value.escalate_to_human <=> (ret.value.urgency = "High")
  /\ (call = "evaluate" /\ classification # PyNone) =>
       /\ classification.escalate_to_human <=> (classification.urgency = "High")
       /\ LegalEmailBody =>
            /\ classification.escalate_to_human = FALSE
            /\ ret.value[1] = TRUE
       /\ (subject = SUBJECT_EMPTY /\ IsPadded(TEXT_URGENT, body)) =>
            /\ classification.escalate_to_human = TRUE
            /\ ret.value[1] = FALSE

\* C19 witness: the evaluator has declined a ticket whose provisional flag
\* is true ("urgent: this is terrible and awful", empty subject).
C19_Witness ==
  /\ call = "evaluate"
  /\ classification # PyNone
  /\ subject = SUBJECT_EMPTY
  /\ body = TEXT_URGENT
  /\ classification.escalate_to_human = TRUE
  /\ classification.confidence = 7000
  /\ ret.value[1] = FALSE

\* C20: for every non-empty classification record, every body and every
\* contact_count, get_escalation_priority returns only Critical, High or
\* None; Medium and Low are returned only when the classification is an
\* empty record and the body has no legal or refund keyword, Medium iff
\* contact_count >= 2.
C20_ReachablePriorityTiers ==
  call = "get_escalation_priority" =>
    /\ Truthy(classification) =>
         ret \in {Return("Critical"), Return("High"), Return("None")}
    /\ (~ret.raised /\ ret.value \in {"Medium", "Low"}) =>
         /\ classification = EmptyDict
         /\ body \in PlainBodies
         /\ (ret.value = "Medium") <=> (contact_count >= 2)
    /\ (classification = EmptyDict /\ body \in PlainBodies) =>
         ret = Return(IF contact_count >= 2 THEN "Medium" ELSE "Low")

\* C20 witness: the empty record with "hello there" on a first contact has
\* been given priority Low.
C20_Witness ==
  /\ call = "get_escalation_priority"
  /\ classification = EmptyDict
  /\ body = BODY_HELLO
  /\ contact_count = 1
  /\ ret = Return("Low")

=============================================================================
